---- MODULE Spec2Model ----
(***************************************************************************)
(* Returns / risk analytics core of index_app (src/utils/data_processing.py)*)
(* and the traces of the deep-dive plot (src/utils/visualizations.py)      *)
(*                                                                         *)
(* Numbers.  A float cell is a record [k, n, d]:                           *)
(*   k = "q"   the rational n/d (d > 0, lowest terms)                      *)
(*   k = "ln"  the real ln(n/d), n, d > 0, lowest terms; ln(1/1) is the    *)
(*             real number 0.  Sums of such values are again of this form  *)
(*             (ln a + ln b = ln ab), so np.log, diff, sum and np.expm1    *)
(*             are computed exactly.                                       *)
(*   k = "rt"  the real sign(n) * sqrt(|n|/d)  (std, sharpe, skew)         *)
(*   k = "inf" +inf (n = 1) or -inf (n = -1)                               *)
(*   k = "nan" NaN, also pandas' missing value                             *)
(*   k = "vol" a rational combination of exponentially weighted standard   *)
(*             deviations (robust_vol only, see there)                     *)
(* Rounding of binary floating point is not modelled.                      *)
(***************************************************************************)
EXTENDS Integers, Sequences, FiniteSets, TLC

VARIABLES
    pc,        \* position of the caller: which call has been made
    panel,     \* the long price panel df: set of records [symbol, date, close]
    args,      \* arguments of the last calculate_returns_wide call
    rets,      \* the table calculate_returns_wide returned
    series,    \* the caller's return Series object (mutable, shared by reference)
    input0,    \* the values the caller put into series (history variable)
    calls,     \* the calculate_stats calls made so far: <<[freq, out]>>
    dd,        \* the Series calculate_drawdown returned
    columns,   \* the column labels of the long price panel df
    result     \* what the last call of one of the other functions returned

vars == <<pc, panel, args, rets, series, input0, calls, dd, columns, result>>

----------------------------------------------------------------------------
(* Bounds *)

MaxLen == 3        \* longest return series handed to the statistics engine
MaxCalls == 2      \* calculate_stats calls made on one series object
MaxDays == 3       \* trading days in the panel's calendar
MaxRecords == 4    \* records in the long panel

----------------------------------------------------------------------------
(* float64 values *)

NaN == [k |-> "nan", n |-> 0, d |-> 1]
PInf == [k |-> "inf", n |-> 1, d |-> 0]
NInf == [k |-> "inf", n |-> -1, d |-> 0]

Abs(i) == IF i < 0 THEN -i ELSE i
Sgn(i) == IF i < 0 THEN -1 ELSE IF i = 0 THEN 0 ELSE 1

RECURSIVE GCD(_, _)
GCD(a, b) == IF b = 0 THEN a ELSE GCD(b, a % b)

\* the rational n/d in lowest terms with a positive denominator
Q(n, d) ==
    LET g == GCD(Abs(n), Abs(d))
        s == IF d < 0 THEN -1 ELSE 1
    IN  [k |-> "q", n |-> s * (n \div g), d |-> s * (d \div g)]

Zero == Q(0, 1)
One == Q(1, 1)

IsNaN(x) == x.k = "nan"
IsInf(x) == x.k = "inf"
\* sign of a "q", "rt" or "inf" value
SignOf(x) == Sgn(x.n)

\* -x; -ln(n/d) = ln(d/n)
Neg(x) ==
    IF x.k \in {"q", "inf", "rt"} THEN [x EXCEPT !.n = -x.n]
    ELSE IF x.k = "ln" THEN [x EXCEPT !.n = x.d, !.d = x.n]
    ELSE x

\* x + y on float64: both operands "q", or both "ln" (ln a + ln b = ln ab)
Add(x, y) ==
    IF IsNaN(x) \/ IsNaN(y) THEN NaN
    ELSE IF IsInf(x) /\ IsInf(y) THEN (IF x.n = y.n THEN x ELSE NaN)
    ELSE IF IsInf(x) THEN x
    ELSE IF IsInf(y) THEN y
    ELSE IF x.k = "ln"
         THEN LET a == Q(x.n, y.d)
                  b == Q(y.n, x.d)
              IN  [k |-> "ln", n |-> a.n * b.n, d |-> a.d * b.d]
    ELSE LET g == GCD(x.d, y.d)
         IN  Q(x.n * (y.d \div g) + y.n * (x.d \div g), x.d * (y.d \div g))

Sub(x, y) == Add(x, Neg(y))

\* x * y on float64 ("q" operands)
Mul(x, y) ==
    IF IsNaN(x) \/ IsNaN(y) THEN NaN
    ELSE IF IsInf(x) \/ IsInf(y)
         THEN (IF SignOf(x) * SignOf(y) = 0 THEN NaN
               ELSE IF SignOf(x) * SignOf(y) > 0 THEN PInf ELSE NInf)
    ELSE LET a == Q(x.n, y.d)
             b == Q(y.n, x.d)
         IN  Q(a.n * b.n, a.d * b.d)

\* x / y on numpy float64: division by zero gives inf or nan, never raises
Div(x, y) ==
    IF IsNaN(x) \/ IsNaN(y) THEN NaN
    ELSE IF IsInf(x) /\ IsInf(y) THEN NaN
    ELSE IF IsInf(y) THEN Zero
    ELSE IF IsInf(x) THEN (IF y.n < 0 THEN Neg(x) ELSE x)
    ELSE IF y.n = 0 THEN (IF x.n = 0 THEN NaN
                          ELSE IF x.n > 0 THEN PInf ELSE NInf)
    ELSE Mul(x, Q(y.d, y.n))

\* x < y on float64 ("q" or "inf" operands); any comparison with NaN is false
Lt(x, y) ==
    IF IsNaN(x) \/ IsNaN(y) THEN FALSE
    ELSE IF IsInf(x) THEN x.n < 0 /\ ~(IsInf(y) /\ y.n < 0)
    ELSE IF IsInf(y) THEN y.n > 0
    ELSE x.n * y.d < y.n * x.d

Le(x, y) == IF IsNaN(x) \/ IsNaN(y) THEN FALSE ELSE ~Lt(y, x)

\* np.log of a "q" cell: log(0) = -inf, log of a negative number = nan
Ln(x) ==
    IF IsNaN(x) THEN NaN
    ELSE IF IsInf(x) THEN (IF x.n > 0 THEN PInf ELSE NaN)
    ELSE IF x.n > 0 THEN [k |-> "ln", n |-> x.n, d |-> x.d]
    ELSE IF x.n = 0 THEN NInf
    ELSE NaN

\* np.exp of an "ln" cell
Exp(x) ==
    IF IsNaN(x) THEN NaN
    ELSE IF IsInf(x) THEN (IF x.n > 0 THEN PInf ELSE Zero)
    ELSE Q(x.n, x.d)

Log1p(x) == Ln(Add(x, One))
Expm1(x) == Sub(Exp(x), One)

\* x ** 0.5 of a "q" cell, kept as the radical
Sqrt(x) ==
    IF IsNaN(x) THEN NaN
    ELSE IF IsInf(x) THEN (IF x.n > 0 THEN PInf ELSE NaN)
    ELSE IF x.n < 0 THEN NaN
    ELSE [k |-> "rt", n |-> x.n, d |-> x.d]

\* the square of an "rt" cell, with its sign: a "q" cell
Sq(x) == IF x.k = "rt" THEN Q(x.n, x.d) ELSE x

\* product of two radicals
RtMul(x, y) ==
    LET p == Mul(Sq(x), Sq(y))
    IN  IF p.k = "q" THEN [k |-> "rt", n |-> p.n, d |-> p.d] ELSE p

\* a guarded division: 0 instead of a non-finite quotient when y is 0
DivByRtGuarded(x, y) ==
    IF IsNaN(x) \/ IsNaN(y) THEN NaN
    ELSE IF y.n = 0 THEN [k |-> "rt", n |-> 0, d |-> 1]
    ELSE [k |-> "rt", n |-> SignOf(x) * x.n * x.n * y.d, d |-> x.d * x.d * y.n]

\* x / y with x a "q" cell and y a radical: sign(x) * sqrt(x^2 / y^2)
DivByRt(x, y) ==
    LET x2 == IF x.k = "q" THEN Q(SignOf(x) * x.n * x.n, x.d * x.d) ELSE x
        p == Div(x2, Sq(y))
    IN  IF p.k = "q" THEN [k |-> "rt", n |-> p.n, d |-> p.d] ELSE p

----------------------------------------------------------------------------
(* pandas Series reductions.  A Series is a sequence of cells; position i  *)
(* of a Series carries the index label DayOf(i).                           *)

NotNa(s) == SelectSeq(s, LAMBDA x : ~IsNaN(x))

RECURSIVE SumFrom(_, _, _)
SumFrom(s, i, acc) ==
    IF i > Len(s) THEN acc ELSE SumFrom(s, i + 1, Add(acc, s[i]))

\* Series.sum(): missing cells are skipped, an empty sum is 0.0
SeriesSum(s, zero) == SumFrom(NotNa(s), 1, zero)

\* Series.mean(): missing cells are skipped, nan when nothing is left
SeriesMean(s) ==
    LET v == NotNa(s)
    IN  IF Len(v) = 0 THEN NaN ELSE Div(SumFrom(v, 1, Zero), Q(Len(v), 1))

\* x^p for p = 2 or 3
Pow(x, p) == IF p = 2 THEN Mul(x, x) ELSE Mul(Mul(x, x), x)

\* sum over the cells of v of (x - m)^p
SumDevPow(v, m, p) == SumFrom([i \in 1..Len(v) |-> Pow(Sub(v[i], m), p)], 1, Zero)

\* sum over the non-missing cells of (x - mean)^p, p = 2 or 3
Moment(s, p) == SumDevPow(NotNa(s), SeriesMean(s), p)

\* Series.std(): ddof = 1, nan for fewer than two observations
StdOf(c, m2) == IF c <= 1 THEN NaN ELSE Sqrt(Div(m2, Q(c - 1, 1)))

SeriesStd(s) == StdOf(Len(NotNa(s)), Moment(s, 2))

\* the radical sg * sqrt(v) of a "q" cell v >= 0
SignedRt(sg, v) ==
    IF v.k = "q" THEN [k |-> "rt", n |-> sg * v.n, d |-> v.d] ELSE NaN

\* Series.skew() (pandas nanskew): c * sqrt(c-1) / (c-2) * m3 / m2^1.5,
\* nan for fewer than three observations, 0 when m2 = 0.  Its square is
\* c^2 (c-1) / (c-2)^2 * (m3/m2)^2 / m2 and its sign the sign of m3.
SkewOf(c, m2, m3) ==
    IF c < 3 THEN NaN
    ELSE IF m2 = Zero THEN SignedRt(1, Zero)
    ELSE SignedRt(SignOf(m3),
                  Mul(Q(c * c * (c - 1), (c - 2) * (c - 2)),
                      Div(Pow(Div(m3, m2), 2), m2)))

SeriesSkew(s) == SkewOf(Len(NotNa(s)), Moment(s, 2), Moment(s, 3))

\* linear interpolation at fractional position h (from 0) of the sorted v
Interpolate(v, lo, frac) ==
    IF frac = Zero THEN v[lo + 1]
    ELSE Add(v[lo + 1], Mul(Sub(v[lo + 2], v[lo + 1]), frac))

QuantileAt(v, h) ==
    IF Len(v) = 0 THEN NaN
    ELSE Interpolate(v, h.n \div h.d, Sub(h, Q(h.n \div h.d, 1)))

\* Series.quantile(q), linear interpolation between the order statistics
SeriesQuantile(s, q) ==
    QuantileAt(SortSeq(NotNa(s), Lt), Mul(Q(Len(NotNa(s)) - 1, 1), q))

\* Series.cumsum(): a missing cell stays missing and is left out of the sum
RECURSIVE CumSumFrom(_, _, _, _)
CumSumFrom(s, i, acc, out) ==
    IF i > Len(s) THEN out
    ELSE IF IsNaN(s[i]) THEN CumSumFrom(s, i + 1, acc, Append(out, NaN))
    ELSE CumSumFrom(s, i + 1, Add(acc, s[i]), Append(out, Add(acc, s[i])))

CumSum(s, zero) == CumSumFrom(s, 1, zero, <<>>)

\* the smallest cell of a sequence without missing cells, from acc
RECURSIVE MinFrom(_, _, _)
MinFrom(s, i, acc) ==
    IF i > Len(s) THEN acc
    ELSE MinFrom(s, i + 1, IF Lt(s[i], acc) THEN s[i] ELSE acc)

\* Series.min(): missing cells are skipped, nan when nothing is left
SeriesMin(s) ==
    LET v == NotNa(s)
    IN  IF Len(v) = 0 THEN NaN ELSE MinFrom(v, 2, v[1])

\* the largest cell of a non-empty sequence without missing cells
RECURSIVE MaxFrom(_, _, _)
MaxFrom(s, i, acc) ==
    IF i > Len(s) THEN acc
    ELSE MaxFrom(s, i + 1, IF Lt(acc, s[i]) THEN s[i] ELSE acc)

\* a running maximum that looks ahead: the largest non-missing cell of all of s
RollingMaxLookAhead(s, window) ==
    [i \in 1..Len(s) |->
        IF Len(NotNa(s)) = 0 THEN NaN ELSE MaxFrom(NotNa(s), 2, NotNa(s)[1])]

\* Series.rolling(window, min_periods=1).max(): at position i the largest
\* non-missing cell among positions i-window+1 .. i, nan when there is none
RollingMax(s, window) ==
    [i \in 1..Len(s) |->
        LET from == IF i - window + 1 < 1 THEN 1 ELSE i - window + 1
            w == NotNa(SubSeq(s, from, i))
        IN  IF Len(w) = 0 THEN NaN ELSE MaxFrom(w, 2, w[1])]

----------------------------------------------------------------------------
(* Drawdown Calculator *)

\* cum_perc_return = perc_return.apply(np.log1p).cumsum().apply(np.exp)
CumPercReturn(perc_return) ==
    LET logs == [i \in 1..Len(perc_return) |-> Log1p(perc_return[i])]
        csum == CumSum(logs, Ln(One))
    IN  [i \in 1..Len(csum) |-> Exp(csum[i])]

\* max_cum_perc_return = cum_perc_return.rolling(len(perc_return)+1,
\*                                               min_periods=1).max()
MaxCumPercReturn(perc_return) ==
    RollingMax(CumPercReturn(perc_return), Len(perc_return) + 1)

\* the ratio taken the wrong way round: peak over curve
calculate_drawdown_inverted(perc_return) ==
    [i \in 1..Len(perc_return) |->
        Sub(Div(MaxCumPercReturn(perc_return)[i], CumPercReturn(perc_return)[i]),
            One)]

\* calculate_drawdown(perc_return)
calculate_drawdown(perc_return) ==
    LET cum_perc_return == CumPercReturn(perc_return)
        max_cum_perc_return == MaxCumPercReturn(perc_return)
    IN  [i \in 1..Len(perc_return) |->
            Sub(Div(cum_perc_return[i], max_cum_perc_return[i]), One)]

----------------------------------------------------------------------------
(* Calendar.  Days are ordinals of the year 2024 (1 = Monday 1 January).   *)

\* the i-th trading day of the modelled calendar: 3, 4, 17, 18, 19, ...
\* (two days of the first week, none of the second, then the third week on)
DayOf(i) == IF i <= 2 THEN 2 + i ELSE 14 + i

\* the Friday that ends the week of day d (resample rule "W-FRI")
WeekEndFriday(d) == d + ((5 - d) % 7)

\* the month of day d, and its last day (d within the first quarter of 2024)
MonthOf(d) == IF d <= 31 THEN 1 ELSE IF d <= 60 THEN 2 ELSE 3
MonthEnd(d) == IF d <= 31 THEN 31 ELSE IF d <= 60 THEN 60 ELSE 91

----------------------------------------------------------------------------
(* Performance Statistics Engine *)

Frequency == {"Natural", "Year", "Month", "Week", "BDay"}
NATURAL == "Natural"

BUSINESS_DAYS_IN_YEAR == 256
MONTHS_PER_YEAR == 12
\* WEEKS_PER_YEAR = 52.25
WEEKS_PER_YEAR == Q(209, 4)

QUANT_PERCENTILE_EXTREME == Q(1, 100)
QUANT_PERCENTILE_STD == Q(3, 10)
\* norm.ppf at 0.01, 0.3, 0.7 and 0.99, to four decimals
NormPpf(p) == IF p = QUANT_PERCENTILE_EXTREME THEN Q(-23263, 10000)
              ELSE IF p = QUANT_PERCENTILE_STD THEN Q(-5244, 10000)
              ELSE IF p = Sub(One, QUANT_PERCENTILE_STD) THEN Q(5244, 10000)
              ELSE Q(23263, 10000)
NORMAL_DISTR_RATIO ==
    Div(NormPpf(QUANT_PERCENTILE_EXTREME), NormPpf(QUANT_PERCENTILE_STD))

\* the keys of PERIODS_PER_YEAR and of at_frequency_str_dict
MappedFrequency == {"Year", "Month", "Week"}

\* periods_per_year(at_frequency), for a frequency that does not raise
periods_per_year(at_frequency) ==
    IF at_frequency = NATURAL THEN Q(BUSINESS_DAYS_IN_YEAR, 1)
    ELSE IF at_frequency = "Month" THEN Q(MONTHS_PER_YEAR, 1)
    ELSE IF at_frequency = "Week" THEN WEEKS_PER_YEAR
    ELSE One

\* the bucket number (from 0) of position i of a Series under
\* perc_return.resample(rule): "Y" and "1M" bin by calendar year / month,
\* "7D" by 7-day bins counted from the first index label
ResampleBucket(at_frequency, i) ==
    IF at_frequency = "Week" THEN (DayOf(i) - DayOf(1)) \div 7
    ELSE IF at_frequency = "Month" THEN MonthOf(DayOf(i)) - MonthOf(DayOf(1))
    ELSE 0

\* perc_return.resample(rule).sum(): one cell per bucket from the first to
\* the last, each the sum of its non-missing cells, 0.0 when it has none
ResampleSum(perc_return, at_frequency) ==
    LET last == ResampleBucket(at_frequency, Len(perc_return))
        pos(b) == {i \in 1..Len(perc_return) :
                      ResampleBucket(at_frequency, i) = b}
        cells(b) == [j \in 1..Cardinality(pos(b)) |->
                        perc_return[CHOOSE i \in pos(b) :
                            Cardinality({m \in pos(b) : m < i}) = j - 1]]
    IN  IF Len(perc_return) = 0 THEN <<>>
        ELSE [b \in 1..(last + 1) |-> SeriesSum(cells(b - 1), Zero)]

\* sum_at_frequency(perc_return, at_frequency) for a frequency that does not
\* raise; for NATURAL the result is the argument object itself
sum_at_frequency(perc_return, at_frequency) ==
    IF at_frequency = NATURAL THEN perc_return
    ELSE ResampleSum(perc_return, at_frequency)

ann_mean_given_frequency(perc_return_at_freq, at_frequency) ==
    Mul(SeriesMean(perc_return_at_freq), periods_per_year(at_frequency))

ann_std_given_frequency(perc_return_at_freq, at_frequency) ==
    RtMul(SeriesStd(perc_return_at_freq), Sqrt(periods_per_year(at_frequency)))

\* the zeros of x left in place
KeepZeros(x) == [i \in 1..Len(x) |-> x[i]]

\* x[x == 0] = np.nan: the assignment writes into the object x
RemoveZeros(x) == [i \in 1..Len(x) |-> IF x[i] = Zero THEN NaN ELSE x[i]]

\* demeaned_remove_zeros(x): the value returned (x - x.mean() after the
\* zeros of x were overwritten)
demeaned_remove_zeros(x) ==
    LET x1 == RemoveZeros(x)
        m == SeriesMean(x1)
    IN  [i \in 1..Len(x1) |-> Sub(x1[i], m)]

calculate_quant_ratio_lower(x) ==
    LET x_dm == demeaned_remove_zeros(x)
        raw_ratio == Div(SeriesQuantile(x_dm, QUANT_PERCENTILE_EXTREME),
                         SeriesQuantile(x_dm, QUANT_PERCENTILE_STD))
    IN  Div(raw_ratio, NORMAL_DISTR_RATIO)

\* an upper ratio taken at the lower percentiles
calculate_quant_ratio_upper_at_lower(x) ==
    LET x_dm == demeaned_remove_zeros(x)
        raw_ratio == Div(SeriesQuantile(x_dm, QUANT_PERCENTILE_EXTREME),
                         SeriesQuantile(x_dm, QUANT_PERCENTILE_STD))
    IN  Div(raw_ratio, NORMAL_DISTR_RATIO)

calculate_quant_ratio_upper(x) ==
    LET x_dm == demeaned_remove_zeros(x)
        raw_ratio == Div(SeriesQuantile(x_dm, Sub(One, QUANT_PERCENTILE_EXTREME)),
                         SeriesQuantile(x_dm, Sub(One, QUANT_PERCENTILE_STD)))
    IN  Div(raw_ratio, NORMAL_DISTR_RATIO)

\* the dict calculate_stats returns
StatsBundle(perc_return_at_freq, at_frequency) ==
    LET ann_mean == ann_mean_given_frequency(perc_return_at_freq, at_frequency)
        ann_std == ann_std_given_frequency(perc_return_at_freq, at_frequency)
        drawdowns == calculate_drawdown(perc_return_at_freq)
        after_lower == RemoveZeros(perc_return_at_freq)
    IN  [ann_mean |-> ann_mean,
         ann_std |-> ann_std,
         sharpe_ratio |-> DivByRt(ann_mean, ann_std),
         skew |-> SeriesSkew(perc_return_at_freq),
         avg_drawdown |-> SeriesMean(drawdowns),
         max_drawdown |-> SeriesMin(drawdowns),
         quant_ratio_lower |-> calculate_quant_ratio_lower(perc_return_at_freq),
         quant_ratio_upper |-> calculate_quant_ratio_upper(after_lower)]

\* calculate_stats(perc_return, at_frequency): what it returns (out) and the
\* contents of the caller's object perc_return when it returns (arg)
calculate_stats(perc_return, at_frequency) ==
    IF at_frequency \notin MappedFrequency \cup {NATURAL}
    THEN [raised |-> "KeyError", out |-> <<>>, arg |-> perc_return]
    ELSE LET perc_return_at_freq == sum_at_frequency(perc_return, at_frequency)
         IN  [raised |-> "",
              out |-> StatsBundle(perc_return_at_freq, at_frequency),
              arg |-> IF at_frequency = NATURAL
                      THEN RemoveZeros(perc_return_at_freq)
                      ELSE perc_return]

----------------------------------------------------------------------------
(* The statistics engine and the drawdown calculator called on one Series  *)

None == [k |-> "none"]

\* the columns of the daily price dataset the pages load
DatasetColumns ==
    {"symbol", "date", "close", "index_name", "index_type", "index_category"}

\* the cells a return Series of the caller is built from
ReturnCells == {Q(-1, 2), Zero, Q(1, 2), One, NaN}

\* the sequences over S of length 1 .. n
SeqsUpTo(S, n) == UNION {[1..m -> S] : m \in 1..n}

InputSeries == SeqsUpTo(ReturnCells, MaxLen)

InitStats ==
    /\ pc = "stats"
    /\ panel = {}
    /\ args = None
    /\ rets = None
    /\ series \in InputSeries
    /\ input0 = series
    /\ calls = <<>>
    /\ dd = None
    /\ columns = DatasetColumns
    /\ result = None

\* the record of one calculate_stats call on the caller's object
StatsCall(given, at_frequency) ==
    [freq |-> at_frequency, given |-> given,
     raised |-> calculate_stats(given, at_frequency).raised,
     out |-> calculate_stats(given, at_frequency).out]

\* the caller runs calculate_stats(series, at_frequency)
CallCalculateStats(at_frequency) ==
    /\ pc = "stats"
    /\ calls = <<>>
    /\ series' = calculate_stats(series, at_frequency).arg
    /\ calls' = <<StatsCall(series, at_frequency)>>
    /\ UNCHANGED <<pc, panel, args, rets, input0, dd, columns, result>>

\* the caller runs the same call again on the same object
RepeatCalculateStats ==
    /\ pc = "stats"
    /\ calls # <<>>
    /\ Len(calls) < MaxCalls
    /\ series' = calculate_stats(series, calls[1].freq).arg
    /\ calls' = Append(calls, StatsCall(series, calls[1].freq))
    /\ UNCHANGED <<pc, panel, args, rets, input0, dd, columns, result>>

NextStats ==
    \/ \E f \in Frequency : CallCalculateStats(f)
    \/ RepeatCalculateStats

SpecStats == InitStats /\ [][NextStats]_vars

----------------------------------------------------------------------------
(* The drawdown calculator called on one Series *)

InitDrawdown ==
    /\ pc = "drawdown"
    /\ panel = {}
    /\ args = None
    /\ rets = None
    /\ series \in InputSeries
    /\ input0 = series
    /\ calls = <<>>
    /\ dd = None
    /\ columns = DatasetColumns
    /\ result = None

\* the caller runs calculate_drawdown(series)
CallCalculateDrawdown ==
    /\ pc = "drawdown"
    /\ dd = None
    /\ dd' = [k |-> "series", given |-> series, out |-> calculate_drawdown(series)]
    /\ UNCHANGED <<pc, panel, args, rets, series, input0, calls, columns, result>>

NextDrawdown == CallCalculateDrawdown

SpecDrawdown == InitDrawdown /\ [][NextDrawdown]_vars

----------------------------------------------------------------------------
(* Return Calculator.  A table (DataFrame) is a record                     *)
(*   [cols: its column labels, index: the sequence of its row labels,      *)
(*    val: the sequence of its rows, each a function cols -> cell]         *)

Symbols == {"A", "B"}
Closes == {-1, 0, 1, 2, 3}
PanelDates == {DayOf(i) : i \in 1..MaxDays}

\* the ascending sequence of a finite set of integers
RECURSIVE SortedSeq(_)
SortedSeq(S) ==
    IF S = {} THEN <<>>
    ELSE LET m == CHOOSE x \in S : \A y \in S : x <= y
         IN  <<m>> \o SortedSeq(S \ {m})

\* an unstack that fills a missing cell with the symbol's close at the
\* nearest earlier date
UnstackForwardFilled(df) ==
    LET idx == SortedSeq({r.date : r \in df})
        cols == {r.symbol : r \in df}
        seen(d, c) == {r \in df : r.symbol = c /\ r.date <= d}
        close(d, c) ==
            IF seen(d, c) # {}
            THEN Q((CHOOSE r \in seen(d, c) :
                        \A q \in seen(d, c) : q.date <= r.date).close, 1)
            ELSE NaN
    IN  [cols |-> cols, index |-> idx,
         val |-> [i \in 1..Len(idx) |-> [c \in cols |-> close(idx[i], c)]]]

\* df.set_index(['symbol','date'])[['close']].unstack(0).droplevel(0, axis=1):
\* one row per date of df (ascending), one column per symbol of df, the close
\* of the record (symbol, date) or missing
Unstack(df) ==
    LET idx == SortedSeq({r.date : r \in df})
        cols == {r.symbol : r \in df}
        close(d, c) ==
            IF \E r \in df : r.date = d /\ r.symbol = c
            THEN Q((CHOOSE r \in df : r.date = d /\ r.symbol = c).close, 1)
            ELSE NaN
    IN  [cols |-> cols, index |-> idx,
         val |-> [i \in 1..Len(idx) |-> [c \in cols |-> close(idx[i], c)]]]

\* DataFrame.apply(np.log)
ApplyLog(t) ==
    [t EXCEPT !.val = [i \in 1..Len(t.index) |->
                          [c \in t.cols |-> Ln(t.val[i][c])]]]

\* DataFrame.diff(): each row minus the row before it, the first row missing
Diff(t) ==
    [t EXCEPT !.val = [i \in 1..Len(t.index) |->
                          [c \in t.cols |->
                              IF i = 1 THEN NaN
                              ELSE Sub(t.val[i][c], t.val[i - 1][c])]]]

\* the positions of the rows DataFrame.dropna() keeps: rows without any
\* missing cell (how='any' is the default)
RowsWithoutNa(t) ==
    {i \in 1..Len(t.index) : \A c \in t.cols : ~IsNaN(t.val[i][c])}

\* the table made of the rows of t at the positions in keep
TakeRows(t, keep) ==
    [cols |-> t.cols,
     index |-> [j \in 1..Cardinality(keep) |-> t.index[SortedSeq(keep)[j]]],
     val |-> [j \in 1..Cardinality(keep) |-> t.val[SortedSeq(keep)[j]]]]

\* DataFrame.dropna()
DropNa(t) == TakeRows(t, RowsWithoutNa(t))

ResampleCodes == {"W-FRI", "ME", "QE", "YE"}

\* the label (last day) of the period of day d under a resample code
PeriodEnd(code, d) ==
    IF code = "W-FRI" THEN WeekEndFriday(d)
    ELSE IF code = "ME" THEN MonthEnd(d)
    ELSE IF code = "QE" THEN 91
    ELSE 366

\* the cells of column c of t in the rows whose date falls in period l
BucketCells(t, code, l, c) ==
    LET pos == SortedSeq({i \in 1..Len(t.index) : PeriodEnd(code, t.index[i]) = l})
    IN  [j \in 1..Len(pos) |-> t.val[pos[j]][c]]

\* DataFrame.resample(code).sum(): one row per period from the first row's
\* period to the last row's; a cell is the sum of the non-missing cells of
\* the column in the period, 0.0 when there are none
ResampleSumTable(t, code, zero) ==
    IF Len(t.index) = 0 THEN t
    ELSE LET first == PeriodEnd(code, t.index[1])
             last == PeriodEnd(code, t.index[Len(t.index)])
             labels == SortedSeq({l \in first..last : PeriodEnd(code, l) = l})
         IN  [cols |-> t.cols, index |-> labels,
              val |-> [j \in 1..Len(labels) |->
                          [c \in t.cols |->
                              SeriesSum(BucketCells(t, code, labels[j], c), zero)]]]

\* np.expm1(log_returns)
ApplyExpm1(t) ==
    [t EXCEPT !.val = [i \in 1..Len(t.index) |->
                          [c \in t.cols |-> Expm1(t.val[i][c])]]]

\* log_returns after line 234: log of the wide closes, differenced by row
NativeLogReturns(df) == Diff(ApplyLog(Unstack(df)))

AfterDropna(t, dropna) == IF dropna THEN DropNa(t) ELSE t

AfterResample(t, resample) ==
    IF resample # "None" THEN ResampleSumTable(t, resample, Ln(One)) ELSE t

\* calculate_returns_wide(df, kind, resample, dropna)  (the second
\* definition, which is the one the module exports)
calculate_returns_wide(df, kind, resample, dropna) ==
    IF kind = "log"
    THEN AfterResample(AfterDropna(NativeLogReturns(df), dropna), resample)
    ELSE ApplyExpm1(AfterResample(AfterDropna(NativeLogReturns(df), dropna),
                                  resample))

----------------------------------------------------------------------------
(* The return calculator called on a loaded panel *)

InitReturns ==
    /\ pc = "load"
    /\ panel = {}
    /\ args = None
    /\ rets = None
    /\ series = <<>>
    /\ input0 = <<>>
    /\ calls = <<>>
    /\ dd = None
    /\ columns = DatasetColumns
    /\ result = None

\* the loader delivers one more record of the long panel; (symbol, date) is
\* a key of the panel
LoadRecord(symbol, date, close) ==
    /\ pc = "load"
    /\ Cardinality(panel) < MaxRecords
    /\ ~\E r \in panel : r.symbol = symbol /\ r.date = date
    /\ panel' = panel \cup {[symbol |-> symbol, date |-> date, close |-> close]}
    /\ UNCHANGED <<pc, args, rets, series, input0, calls, dd, columns, result>>

\* a page runs calculate_returns_wide(panel, kind, resample, dropna)
CallCalculateReturnsWide(kind, resample, dropna) ==
    /\ pc = "load"
    /\ panel # {}
    /\ pc' = "returned"
    /\ args' = [k |-> "args", kind |-> kind, resample |-> resample,
                dropna |-> dropna]
    /\ rets' = calculate_returns_wide(panel, kind, resample, dropna)
    /\ UNCHANGED <<panel, series, input0, calls, dd, columns, result>>

NextReturns ==
    \/ \E s \in Symbols, d \in PanelDates, c \in Closes : LoadRecord(s, d, c)
    \/ \E kind \in {"log", "simple"}, resample \in {"None"} \cup ResampleCodes,
          dropna \in BOOLEAN :
          CallCalculateReturnsWide(kind, resample, dropna)

SpecReturns == InitReturns /\ [][NextReturns]_vars

----------------------------------------------------------------------------
(* Claims about the return calculator *)

Returned == pc = "returned"

\* the position of the row of t labelled d (0 when there is none)
RowOf(t, d) ==
    IF \E i \in 1..Len(t.index) : t.index[i] = d
    THEN CHOOSE i \in 1..Len(t.index) : t.index[i] = d
    ELSE 0

\* the close of symbol c at date d in the long panel (c has a record at d)
CloseOf(df, c, d) == (CHOOSE r \in df : r.symbol = c /\ r.date = d).close
HasRecord(df, c, d) == \E r \in df : r.symbol = c /\ r.date = d

\* the date of the panel just before d (0 when d is its first date)
PrevDate(df, d) ==
    IF \E r \in df : r.date < d
    THEN CHOOSE e \in {r.date : r \in df} :
            e < d /\ \A r \in df : r.date < d => r.date <= e
    ELSE 0

\* symbol c was observed at d and at the date just before d
HasConsecutive(df, c, d) ==
    /\ HasRecord(df, c, d)
    /\ PrevDate(df, d) # 0
    /\ HasRecord(df, c, PrevDate(df, d))

\* ln(P[t]) - ln(P[t-1]) for the consecutive observations of c ending at d
LogReturnOf(df, c, d) ==
    Sub(Ln(Q(CloseOf(df, c, d), 1)), Ln(Q(CloseOf(df, c, PrevDate(df, d)), 1)))

\* the cell of the result for a cell x of the log-return table
AsKind(kind, x) == IF kind = "log" THEN x ELSE Expm1(x)

\* every close of the panel is a positive price
PositivePanel == \A r \in panel : r.close > 0

\* C1: in a panel of positive prices where each symbol has at least two
\* observations, for consecutive observations of s at t-1 and t the table
\* of calculate_returns_wide(kind='log') holds ln(P[t]) - ln(P[t-1]) at
\* (t, s), and that of kind='simple' holds exp(that) - 1
C1_ReturnAtEveryConsecutivePair ==
    (/\ Returned
     /\ args.resample = "None" /\ args.dropna
     /\ PositivePanel
     /\ \A c \in Symbols :
           (\E r \in panel : r.symbol = c)
           => Cardinality({r \in panel : r.symbol = c}) >= 2)
    => \A r \in panel :
          HasConsecutive(panel, r.symbol, r.date)
          => /\ RowOf(rets, r.date) # 0
             /\ rets.val[RowOf(rets, r.date)][r.symbol]
                    = AsKind(args.kind, LogReturnOf(panel, r.symbol, r.date))

\* the defined native log returns of symbol c whose dates fall in period l
NativeInPeriod(df, code, l, c) ==
    LET ds == SortedSeq({d \in {r.date : r \in df} :
                            /\ PeriodEnd(code, d) = l
                            /\ HasConsecutive(df, c, d)
                            /\ ~IsNaN(LogReturnOf(df, c, d))})
    IN  [j \in 1..Len(ds) |-> LogReturnOf(df, c, ds[j])]

\* C2: with a resample code and kind='log', each output cell (bucket b,
\* symbol s) is the sum of all native log returns of s dated inside b, and
\* no defined native log return is left out of its bucket's sum
C2_ResampleSumsEveryNativeReturn ==
    (Returned /\ args.resample # "None" /\ args.kind = "log" /\ PositivePanel)
    => /\ \A j \in 1..Len(rets.index) : \A c \in rets.cols :
             rets.val[j][c]
                 = SumFrom(NativeInPeriod(panel, args.resample, rets.index[j], c),
                           1, Ln(One))
       /\ \A r \in panel :
             (/\ HasConsecutive(panel, r.symbol, r.date)
              /\ ~IsNaN(LogReturnOf(panel, r.symbol, r.date)))
             => RowOf(rets, PeriodEnd(args.resample, r.date)) # 0

\* C3: with dropna=True only the rows in which every symbol's return is
\* undefined are removed: a date on which some symbol has a defined return
\* is a row of the output, the other symbols' cells left missing
C3_DropnaRemovesOnlyEmptyRows ==
    (Returned /\ args.dropna /\ args.resample = "None" /\ PositivePanel)
    => LET native == NativeLogReturns(panel)
       IN  \A i \in 1..Len(native.index) :
              (\E c \in native.cols : ~IsNaN(native.val[i][c]))
              => /\ RowOf(rets, native.index[i]) # 0
                 /\ \A c \in native.cols :
                       rets.val[RowOf(rets, native.index[i])][c]
                           = AsKind(args.kind, native.val[i][c])

\* the defined cells of column c of a table: pairs <<row label, cell>>
DefinedCells(t, c) ==
    {<<t.index[i], t.val[i][c]>> : i \in {j \in 1..Len(t.index) :
                                            ~IsNaN(t.val[j][c])}}

\* C4: the dates with a defined return for a symbol, and the returns there,
\* are the same whether or not records of other symbols are in the panel
C4_ColumnsIndependent ==
    (Returned /\ args.resample = "None" /\ PositivePanel)
    => \A c \in rets.cols :
          DefinedCells(rets, c)
              = DefinedCells(calculate_returns_wide(
                                 {r \in panel : r.symbol = c},
                                 args.kind, args.resample, args.dropna), c)

\* C5: a return that depends on a close that is zero or negative is
\* reported as missing: never a finite number, never an infinite value
C5_NonPositiveCloseGivesMissing ==
    (Returned /\ args.resample = "None")
    => \A i \in 1..Len(rets.index) : \A c \in rets.cols :
          (\/ (HasRecord(panel, c, rets.index[i])
                  /\ CloseOf(panel, c, rets.index[i]) <= 0)
           \/ (HasConsecutive(panel, c, rets.index[i])
                  /\ CloseOf(panel, c, PrevDate(panel, rets.index[i])) <= 0))
          => IsNaN(rets.val[i][c])

\* the period of a row label of the result: the label itself under a
\* resample code, the date when there is none
InPeriod(resample, d, l) ==
    IF resample = "None" THEN d = l ELSE PeriodEnd(resample, d) = l

\* C6: with or without resample, a cell (period, symbol) for which the
\* symbol has no defined native return in the period is missing in the
\* result, never a number such as 0
C6_GapsStayMissing ==
    (Returned /\ PositivePanel)
    => LET native == NativeLogReturns(panel)
       IN  \A j \in 1..Len(rets.index) : \A c \in rets.cols :
              (~\E i \in 1..Len(native.index) :
                    /\ InPeriod(args.resample, native.index[i], rets.index[j])
                    /\ ~IsNaN(native.val[i][c]))
              => IsNaN(rets.val[j][c])

----------------------------------------------------------------------------
(* Claims about the drawdown calculator *)

\* the cumulative growth curve at position i: the product of (1 + r) over
\* the defined returns at positions <= i
RECURSIVE Growth(_, _)
Growth(x, i) ==
    IF i = 0 THEN One
    ELSE IF IsNaN(x[i]) THEN Growth(x, i - 1)
    ELSE Mul(Growth(x, i - 1), Add(One, x[i]))

\* the growth curve is defined at i and no earlier defined point is above it
NewHigh(x, i) ==
    /\ ~IsNaN(x[i])
    /\ \A j \in 1..(i - 1) : ~IsNaN(x[j]) => Le(Growth(x, j), Growth(x, i))

AllAboveMinusOne(x) ==
    \A i \in 1..Len(x) : ~IsNaN(x[i]) => Lt(Q(-1, 1), x[i])

\* C7: for a return series with all returns > -1, every defined drawdown is
\* <= 0, and the drawdown is exactly 0 wherever the growth curve attains a
\* new running maximum (the first defined point included)
C7_DrawdownNonPositive ==
    (dd # None /\ AllAboveMinusOne(dd.given)) =>
        \A i \in 1..Len(dd.given) :
            /\ ~IsNaN(dd.out[i]) => Le(dd.out[i], Zero)
            /\ NewHigh(dd.given, i) => dd.out[i] = Zero

\* a drawdown below 0 followed by a recovery to a new high
C7_Witness ==
    /\ dd # None
    /\ AllAboveMinusOne(dd.given)
    /\ \E j \in 1..Len(dd.given) : \E i \in (j + 1)..Len(dd.given) :
          /\ Lt(dd.out[j], Zero)
          /\ NewHigh(dd.given, i)
          /\ dd.out[i] = Zero

\* C8: the running maximum is non-decreasing along the index, and the
\* drawdown of every prefix of a series is the prefix of the drawdown of the
\* whole series
C8_DrawdownCausal ==
    dd # None =>
        /\ \A k \in 1..Len(dd.given) :
              \A i \in 1..k :
                  calculate_drawdown(SubSeq(dd.given, 1, k))[i] = dd.out[i]
        /\ \A j \in 1..Len(dd.given) : \A i \in 1..j :
              LET m == MaxCumPercReturn(dd.given)
              IN  (~IsNaN(m[i]) /\ ~IsNaN(m[j])) => Le(m[i], m[j])

\* a series whose running maximum rises after its first point (looking
\* ahead would change the earlier drawdowns) and that has a drawdown below 0
C8_Witness ==
    /\ dd # None
    /\ Len(dd.given) >= 3
    /\ \E k \in 1..Len(dd.given) : Lt(dd.out[k], Zero)
    /\ \E i \in 1..Len(dd.given) : \E j \in (i + 1)..Len(dd.given) :
          Lt(MaxCumPercReturn(dd.given)[i], MaxCumPercReturn(dd.given)[j])

----------------------------------------------------------------------------
(* Claims about the statistics engine *)

\* C9: calculate_stats leaves the caller's input series unchanged: after the
\* call every cell, exact zeros included, holds the value it held before
C9_InputUnchanged ==
    calls # <<>> => series = input0

\* C10: two successive calculate_stats calls on the same series object with
\* the same frequency return the same statistics bundle
C10_SameBundleTwice ==
    \A i \in 1..Len(calls) : \A j \in 1..Len(calls) :
        (calls[i].freq = calls[j].freq /\ calls[i].raised = ""
            /\ calls[j].raised = "")
        => calls[i].out = calls[j].out

----------------------------------------------------------------------------
(* Statistics table of a return panel *)

\* df[c]: the Series of column c of a table
ColumnOf(df, c) == [i \in 1..Len(df.index) |-> df.val[i][c]]

\* performance_stats_df(perc_return, at_frequency): the frame with one row
\* per key of the bundle, its column 'stats' and its column 'freq'
performance_stats_df(perc_return, at_frequency) ==
    [raised |-> calculate_stats(perc_return, at_frequency).raised,
     cols |-> {"stats", "freq"},
     stats |-> calculate_stats(perc_return, at_frequency).out,
     freq |-> at_frequency]

\* a statistics table computed on the rows that are complete in every
\* column: an instrument's row then depends on the other columns
performance_stats_instruments_joint(df) ==
    [index |-> df.cols,
     cols |-> UNION {DOMAIN performance_stats_df(ColumnOf(DropNa(df), c),
                                                 NATURAL).stats : c \in df.cols},
     val |-> [c \in df.cols |->
                 performance_stats_df(ColumnOf(DropNa(df), c), NATURAL).stats]]

\* performance_stats_instruments(df): stats_df.T, one row per column of df
\* holding the column 'stats' of performance_stats_df(df[c]); the columns of
\* the result are the row labels of those frames
performance_stats_instruments(df) ==
    [index |-> df.cols,
     cols |-> UNION {DOMAIN performance_stats_df(ColumnOf(df, c), NATURAL).stats :
                        c \in df.cols},
     val |-> [c \in df.cols |->
                 performance_stats_df(ColumnOf(df, c), NATURAL).stats]]

\* the table df after the calls: calculate_stats writes into the Series
\* df[c], which is a view of df or a copy of its column depending on the
\* pandas build
TablesAfterStats(df) ==
    {df,
     [df EXCEPT !.val = [i \in 1..Len(df.index) |->
                            [c \in df.cols |->
                                RemoveZeros(ColumnOf(df, c))[i]]]]}

MaxRows == 2       \* rows of the return panel handed to the statistics table

InstrumentCells == {Zero, Q(1, 2), NaN}

\* the return panels of 1 .. MaxRows rows over some of the symbols
ReturnPanels ==
    UNION {UNION {{[cols |-> cs,
                    index |-> [i \in 1..m |-> DayOf(i)],
                    val |-> v] : v \in [1..m -> [cs -> InstrumentCells]]} :
                     m \in 1..MaxRows} : cs \in (SUBSET Symbols) \ {{}}}

InitInstruments ==
    /\ pc = "instruments"
    /\ panel = {}
    /\ args = None
    /\ rets \in ReturnPanels
    /\ series = <<>>
    /\ input0 = <<>>
    /\ calls = <<>>
    /\ dd = None
    /\ columns = DatasetColumns
    /\ result = None

\* a page runs performance_stats_instruments(rets)
CallPerformanceStatsInstruments ==
    /\ pc = "instruments"
    /\ result = None
    /\ result' = [fn |-> "performance_stats_instruments", given |-> rets,
                  out |-> performance_stats_instruments(rets)]
    /\ rets' \in TablesAfterStats(rets)
    /\ UNCHANGED <<pc, panel, args, series, input0, calls, dd, columns>>

NextInstruments == CallPerformanceStatsInstruments

SpecInstruments == InitInstruments /\ [][NextInstruments]_vars

----------------------------------------------------------------------------
(* Claims about degenerate statistics *)

IsZero(x) == x.k \in {"q", "rt"} /\ x.n = 0
NonFinite(x) == IsNaN(x) \/ IsInf(x)
AllZero(s) == \A i \in 1..Len(s) : s[i] = Zero

\* the frequencies the caller may select: native, week, month, year
SelectableFrequency == {"Natural", "Week", "Month", "Year"}

\* sharpe_ratio and the two tail ratios of a bundle are all non-finite
DegenerateFields(b) ==
    /\ NonFinite(b.sharpe_ratio)
    /\ NonFinite(b.quant_ratio_lower)
    /\ NonFinite(b.quant_ratio_upper)

StatsTableReturned ==
    result # None /\ result.fn = "performance_stats_instruments"

\* C11: for an all-zero return series, and whenever ann_std is zero,
\* calculate_stats raises nothing and returns sharpe_ratio,
\* quant_ratio_lower and quant_ratio_upper as non-finite values, and
\* performance_stats_instruments has a row for that instrument holding
\* those non-finite fields
C11_DegenerateStatsAreValues ==
    StatsTableReturned =>
        \A c \in result.given.cols :
            /\ \A f \in SelectableFrequency :
                  /\ calculate_stats(ColumnOf(result.given, c), f).raised = ""
                  /\ (\/ AllZero(ColumnOf(result.given, c))
                      \/ IsZero(calculate_stats(ColumnOf(result.given, c), f)
                                    .out.ann_std))
                     => DegenerateFields(
                            calculate_stats(ColumnOf(result.given, c), f).out)
            /\ (\/ AllZero(ColumnOf(result.given, c))
                \/ IsZero(calculate_stats(ColumnOf(result.given, c), NATURAL)
                              .out.ann_std))
               => /\ c \in result.out.index
                  /\ {"sharpe_ratio", "quant_ratio_lower", "quant_ratio_upper"}
                         \subseteq result.out.cols
                  /\ DegenerateFields(result.out.val[c])

\* a panel with an all-zero instrument (sharpe nan) next to a constant
\* non-zero one (ann_std zero, sharpe +inf), both rows in the table
C11_Witness ==
    /\ StatsTableReturned
    /\ \E c \in result.given.cols : \E e \in result.given.cols :
          /\ Len(ColumnOf(result.given, c)) = 2
          /\ AllZero(ColumnOf(result.given, c))
          /\ IsZero(result.out.val[c].ann_std)
          /\ IsNaN(result.out.val[c].sharpe_ratio)
          /\ IsZero(result.out.val[e].ann_std)
          /\ result.out.val[e].sharpe_ratio = PInf

----------------------------------------------------------------------------
(* Claims about the Frequency enumeration *)

\* periods_per_year(at_frequency) raises KeyError: the lookup
\* PERIODS_PER_YEAR[at_frequency] of a member that is not a key
periods_per_year_raises(at_frequency) ==
    at_frequency # NATURAL /\ at_frequency \notin MappedFrequency

\* sum_at_frequency(perc_return, at_frequency) raises KeyError: the lookup
\* at_frequency_str_dict[at_frequency] of a member that is not a key
sum_at_frequency_raises(at_frequency) ==
    at_frequency # NATURAL /\ at_frequency \notin MappedFrequency

\* C12: for every member f of Frequency, periods_per_year(f) returns a
\* number without raising (native 256, Year 1, Month 12, Week 52.25) and
\* sum_at_frequency(series, f) returns a series without raising
C12_EveryMemberHasPeriods ==
    \A i \in 1..Len(calls) :
        calls[i].freq \in Frequency
        => /\ ~periods_per_year_raises(calls[i].freq)
           /\ ~sum_at_frequency_raises(calls[i].freq)
           /\ calls[i].raised = ""
           /\ periods_per_year(calls[i].freq)
                  \in {Q(256, 1), One, Q(12, 1), Q(209, 4)}

----------------------------------------------------------------------------
(* Panel Reshaper *)

\* DataFrame.sort_index(): the rows in ascending order of their labels
SortIndex(t) ==
    LET idx == SortedSeq({t.index[i] : i \in 1..Len(t.index)})
        at(d) == CHOOSE i \in 1..Len(t.index) : t.index[i] = d
    IN  [cols |-> t.cols, index |-> idx,
         val |-> [j \in 1..Len(idx) |-> t.val[at(idx[j])]]]

\* create_wide_price_df(df): df[['symbol','close','date']]
\* .set_index(['date','symbol']).unstack(1).droplevel(0, axis=1).sort_index()
create_wide_price_df(df) == SortIndex(Unstack(df))

WideCloses == {1, 2}

\* the long panel with the record (symbol, date, f[symbol, date]) for every
\* key whose f is a close (0: the key has no record)
PanelOf(f) ==
    {[symbol |-> k[1], date |-> k[2], close |-> f[k]] :
        k \in {x \in DOMAIN f : f[x] # 0}}

\* the non-empty long panels with unique (symbol, date) pairs
LongPanels ==
    {PanelOf(f) : f \in [Symbols \X PanelDates -> {0} \cup WideCloses]} \ {{}}

InitWide ==
    /\ pc = "wide"
    /\ panel \in LongPanels
    /\ args = None
    /\ rets = None
    /\ series = <<>>
    /\ input0 = <<>>
    /\ calls = <<>>
    /\ dd = None
    /\ columns = DatasetColumns
    /\ result = None

\* a page runs create_wide_price_df(panel)
CallCreateWidePriceDf ==
    /\ pc = "wide"
    /\ result = None
    /\ result' = [fn |-> "create_wide_price_df", given |-> panel,
                  out |-> create_wide_price_df(panel)]
    /\ UNCHANGED <<pc, panel, args, rets, series, input0, calls, dd, columns>>

NextWide == CallCreateWidePriceDf

SpecWide == InitWide /\ [][NextWide]_vars

WideReturned == result # None /\ result.fn = "create_wide_price_df"

\* C13: for a long panel with unique (symbol, date) pairs the rows of
\* create_wide_price_df are the distinct dates in ascending order, the
\* columns the distinct symbols, and cell (d, s) is the close of the record
\* (s, d) when there is one and missing otherwise: nothing is filled in
C13_WideTableIsThePanel ==
    WideReturned =>
        /\ \A i \in 1..Len(result.out.index) : \A j \in 1..Len(result.out.index) :
              i < j => result.out.index[i] < result.out.index[j]
        /\ {result.out.index[i] : i \in 1..Len(result.out.index)}
               = {r.date : r \in result.given}
        /\ result.out.cols = {r.symbol : r \in result.given}
        /\ \A i \in 1..Len(result.out.index) : \A s \in result.out.cols :
              IF HasRecord(result.given, s, result.out.index[i])
              THEN result.out.val[i][s]
                       = Q(CloseOf(result.given, s, result.out.index[i]), 1)
              ELSE IsNaN(result.out.val[i][s])

\* two symbols with non-overlapping calendars: A traded on the first and
\* third date only, B on the second only, and the table has three rows
C13_Witness ==
    /\ WideReturned
    /\ Len(result.out.index) = 3
    /\ result.out.cols = {"A", "B"}
    /\ \A r \in result.given :
          (r.symbol = "B") = (r.date = result.out.index[2])
    /\ IsNaN(result.out.val[2]["A"])
    /\ IsNaN(result.out.val[1]["B"]) /\ IsNaN(result.out.val[3]["B"])
    /\ ~IsNaN(result.out.val[1]["A"]) /\ ~IsNaN(result.out.val[3]["A"])

----------------------------------------------------------------------------
(* Claims about the statistics table *)

\* the table df restricted to its column c
OnlyColumn(df, c) ==
    [cols |-> {c}, index |-> df.index,
     val |-> [i \in 1..Len(df.index) |-> [e \in {c} |-> df.val[i][c]]]]

\* the table df with every cell outside column c replaced by x
OthersAltered(df, c, x) ==
    [df EXCEPT !.val = [i \in 1..Len(df.index) |->
                           [e \in df.cols |->
                               IF e = c THEN df.val[i][c] ELSE x]]]

\* C14: performance_stats_instruments has exactly one row per column of the
\* input return panel, the row of instrument c is calculate_stats of column
\* c alone, and it is the same when the other columns are removed or altered
C14_RowPerColumnIndependent ==
    StatsTableReturned =>
        /\ result.out.index = result.given.cols
        /\ \A c \in result.given.cols :
              /\ result.out.val[c]
                     = calculate_stats(ColumnOf(result.given, c), NATURAL).out
              /\ result.out.val[c]
                     = performance_stats_instruments(
                           OnlyColumn(result.given, c)).val[c]
              /\ \A x \in {Q(1, 2), NaN} :
                    result.out.val[c]
                        = performance_stats_instruments(
                              OthersAltered(result.given, c, x)).val[c]

\* a two-instrument panel in which one column has a missing cell where the
\* other has a return, and the two rows of the table differ
C14_Witness ==
    /\ StatsTableReturned
    /\ result.given.cols = {"A", "B"}
    /\ Len(result.given.index) = 2
    /\ IsNaN(result.given.val[1]["A"]) /\ ~IsNaN(result.given.val[1]["B"])
    /\ ~IsNaN(result.given.val[2]["A"]) /\ ~IsNaN(result.given.val[2]["B"])
    /\ result.out.val["A"] # result.out.val["B"]
    /\ ~IsNaN(result.out.val["B"].ann_std)

----------------------------------------------------------------------------
(* Robust volatility.  The exponentially weighted standard deviations      *)
(* E[1], ..., E[n] that daily_returns.ewm(span).std() yields at the n       *)
(* positions of its input are kept as symbols; a cell of a volatility      *)
(* series is NaN or the record [k |-> "vol", span, c] that stands for the  *)
(* real number c[1] * E[1] + ... + c[n] * E[n] with rational c[j].         *)

\* the cell 1 * E[j] of a series of n positions
EwmStdCell(span, j, n) ==
    [k |-> "vol", span |-> span,
     c |-> [i \in 1..n |-> IF i = j THEN One ELSE Zero]]

\* daily_returns.ewm(span=span).std(): defined from the second non-missing
\* observation on (adjust=True, bias=False, min_periods=0, ignore_na=False)
EwmStd(daily_returns, span) ==
    [j \in 1..Len(daily_returns) |->
        IF Len(NotNa(SubSeq(daily_returns, 1, j))) >= 2
        THEN EwmStdCell(span, j, Len(daily_returns))
        ELSE NaN]

\* q * v for a rational q and a volatility cell v
VolScale(q, v) ==
    IF IsNaN(v) THEN NaN
    ELSE [v EXCEPT !.c = [i \in DOMAIN v.c |-> Mul(q, v.c[i])]]

\* u + v of two volatility cells
VolAdd(u, v) ==
    IF IsNaN(u) \/ IsNaN(v) THEN NaN
    ELSE [u EXCEPT !.c = [i \in DOMAIN u.c |-> Add(u.c[i], v.c[i])]]

RECURSIVE VolSumFrom(_, _, _)
VolSumFrom(s, i, acc) ==
    IF i > Len(s) THEN acc ELSE VolSumFrom(s, i + 1, VolAdd(acc, s[i]))

\* the mean of a non-empty sequence of defined volatility cells
VolMean(w) == VolScale(Q(1, Len(w)), VolSumFrom(w, 2, w[1]))

\* a rolling mean that needs a full window of defined cells
RollingMeanFullWindow(s, window) ==
    [i \in 1..Len(s) |->
        IF i < window \/ Len(NotNa(SubSeq(s, i - window + 1, i))) < window
        THEN NaN
        ELSE VolMean(SubSeq(s, i - window + 1, i))]

\* a mean over every position up to i, whatever the window
RollingMeanExpanding(s, window) ==
    [i \in 1..Len(s) |->
        LET w == NotNa(SubSeq(s, 1, i))
        IN  IF Len(w) = 0 THEN NaN ELSE VolMean(w)]

\* Series.rolling(window, min_periods=1).mean(): at position i the mean of
\* the defined cells among positions i-window+1 .. i, nan when there is none
RollingMean(s, window) ==
    [i \in 1..Len(s) |->
        LET from == IF i - window + 1 < 1 THEN 1 ELSE i - window + 1
            w == NotNa(SubSeq(s, from, i))
        IN  IF Len(w) = 0 THEN NaN ELSE VolMean(w)]

\* n ** 0.5 for a perfect square n
RootOf(n) == Q(CHOOSE r \in 0..n : r * r = n, 1)

\* a blend whose slow component is left at the daily scale
robust_vol_daily_slow(daily_returns, annualise_stdev, business_days_in_year) ==
    LET daily_exp_std_dev == EwmStd(daily_returns, 32)
        annualisation_factor ==
            IF annualise_stdev THEN RootOf(business_days_in_year) ELSE One
        annualised_std_dev ==
            [i \in 1..Len(daily_returns) |->
                VolScale(annualisation_factor, daily_exp_std_dev[i])]
        ten_year_vol == RollingMean(daily_exp_std_dev,
                                    business_days_in_year * 10)
    IN  [i \in 1..Len(daily_returns) |->
            VolAdd(VolScale(Q(3, 10), ten_year_vol[i]),
                   VolScale(Q(7, 10), annualised_std_dev[i]))]

\* robust_vol(daily_returns, annualise_stdev, BUSINESS_DAYS_IN_YEAR)
robust_vol(daily_returns, annualise_stdev, business_days_in_year) ==
    LET daily_exp_std_dev == EwmStd(daily_returns, 32)
        annualisation_factor ==
            IF annualise_stdev THEN RootOf(business_days_in_year) ELSE One
        annualised_std_dev ==
            [i \in 1..Len(daily_returns) |->
                VolScale(annualisation_factor, daily_exp_std_dev[i])]
        ten_year_vol == RollingMean(annualised_std_dev,
                                    business_days_in_year * 10)
    IN  [i \in 1..Len(daily_returns) |->
            VolAdd(VolScale(Q(3, 10), ten_year_vol[i]),
                   VolScale(Q(7, 10), annualised_std_dev[i]))]

InitVol ==
    /\ pc = "vol"
    /\ panel = {}
    /\ args = None
    /\ rets = None
    /\ series \in InputSeries
    /\ input0 = series
    /\ calls = <<>>
    /\ dd = None
    /\ columns = DatasetColumns
    /\ result = None

\* the caller runs robust_vol(series, annualise_stdev=annualise_stdev)
CallRobustVol(annualise_stdev) ==
    /\ pc = "vol"
    /\ result = None
    /\ result' = [fn |-> "robust_vol", given |-> series,
                  annualise_stdev |-> annualise_stdev,
                  out |-> robust_vol(series, annualise_stdev,
                                     BUSINESS_DAYS_IN_YEAR)]
    /\ UNCHANGED <<pc, panel, args, rets, series, input0, calls, dd, columns>>

NextVol == \E annualise_stdev \in BOOLEAN : CallRobustVol(annualise_stdev)

SpecVol == InitVol /\ [][NextVol]_vars

VolReturned == result # None /\ result.fn = "robust_vol"

NoMissing(s) == \A i \in 1..Len(s) : ~IsNaN(s[i])

\* C15: robust_vol of a return series of length 1 is a series of that one
\* position whose value is undefined; for a longer series without missing
\* values the output has the positions of the input, the first value
\* undefined and every later value defined
C15_RobustVolShortSeries ==
    VolReturned =>
        /\ DOMAIN result.out = DOMAIN result.given
        /\ Len(result.given) = 1 => result.out = <<NaN>>
        /\ (Len(result.given) > 1 /\ NoMissing(result.given))
           => /\ IsNaN(result.out[1])
              /\ \A i \in 2..Len(result.given) : ~IsNaN(result.out[i])

\* a series of three observations whose second and third volatility are
\* defined and differ, and whose one-observation prefix gives one undefined
\* value
C15_Witness ==
    /\ VolReturned
    /\ Len(result.given) = 3 /\ NoMissing(result.given)
    /\ IsNaN(result.out[1])
    /\ ~IsNaN(result.out[2]) /\ ~IsNaN(result.out[3])
    /\ result.out[2] # result.out[3]
    /\ robust_vol(SubSeq(result.given, 1, 1), result.annualise_stdev,
                  BUSINESS_DAYS_IN_YEAR) = <<NaN>>

----------------------------------------------------------------------------
(* The return calculator on panels with different columns *)

CoreColumns == {"symbol", "date", "close"}

\* the column sets of the panels handed to the return calculator
ColumnSets == {CoreColumns, CoreColumns \cup {"index_name"}, DatasetColumns}

\* df.drop(labels, axis=1) raises KeyError when a label is not a column
DropRaises(cols, labels) == ~(labels \subseteq cols)

\* calculate_returns_wide(df, kind, resample, dropna) on a panel whose
\* columns are cols: df.drop(['index_name'], axis=1) first, then
\* set_index(['symbol', 'date'])[['close']] and the rest
calculate_returns_wide_call(cols, df, kind, resample, dropna) ==
    IF DropRaises(cols, {"index_name"}) \/ ~(CoreColumns \subseteq cols)
    THEN [fn |-> "calculate_returns_wide", raised |-> "KeyError", out |-> None]
    ELSE [fn |-> "calculate_returns_wide", raised |-> "",
          out |-> calculate_returns_wide(df, kind, resample, dropna)]

InitColumns ==
    /\ pc = "columns"
    /\ panel \in LongPanels
    /\ args = None
    /\ rets = None
    /\ series = <<>>
    /\ input0 = <<>>
    /\ calls = <<>>
    /\ dd = None
    /\ columns \in ColumnSets
    /\ result = None

\* a caller runs calculate_returns_wide(panel, kind, resample, dropna)
CallOnColumns(kind, resample, dropna) ==
    /\ pc = "columns"
    /\ result = None
    /\ args' = [k |-> "args", kind |-> kind, resample |-> resample,
                dropna |-> dropna]
    /\ result' = calculate_returns_wide_call(columns, panel, kind, resample,
                                             dropna)
    /\ UNCHANGED <<pc, panel, rets, series, input0, calls, dd, columns>>

NextColumns ==
    \E kind \in {"log", "simple"}, resample \in {"None", "W-FRI"},
       dropna \in BOOLEAN : CallOnColumns(kind, resample, dropna)

SpecColumns == InitColumns /\ [][NextColumns]_vars

\* C16: calculate_returns_wide on a panel with exactly the columns symbol,
\* date, close returns the return table without raising, and its result on
\* a panel that also has descriptive columns is that same table
C16_OnlyCoreColumnsNeeded ==
    (result # None /\ result.fn = "calculate_returns_wide")
    => /\ result.raised = ""
       /\ result = calculate_returns_wide_call(CoreColumns, panel, args.kind,
                                               args.resample, args.dropna)

----------------------------------------------------------------------------
(* Deep-dive plot (src/utils/visualizations.py): the three traces of one   *)
(* selected symbol                                                         *)

\* Series.pct_change(): x[t] / x[t-1] - 1, the first cell missing
PctChange(s) ==
    [i \in 1..Len(s) |->
        IF i = 1 THEN NaN ELSE Sub(Div(s[i], s[i - 1]), One)]

\* Series.cumprod(): a missing cell stays missing and is left out of the
\* running product
RECURSIVE CumProdFrom(_, _, _, _)
CumProdFrom(s, i, acc, out) ==
    IF i > Len(s) THEN out
    ELSE IF IsNaN(s[i]) THEN CumProdFrom(s, i + 1, acc, Append(out, NaN))
    ELSE CumProdFrom(s, i + 1, Mul(acc, s[i]), Append(out, Mul(acc, s[i])))

CumProd(s) == CumProdFrom(s, 1, One, <<>>)

\* Series.cummax(): the largest non-missing cell so far, missing where the
\* cell itself is missing
CumMax(s) ==
    [i \in 1..Len(s) |->
        IF IsNaN(s[i]) THEN NaN
        ELSE MaxFrom(NotNa(SubSeq(s, 1, i)), 2, NotNa(SubSeq(s, 1, i))[1])]

\* cumulative_nav = (1 + returns).cumprod() * 100
CumulativeNav(returns) ==
    LET growth == CumProd([i \in 1..Len(returns) |-> Add(One, returns[i])])
    IN  [i \in 1..Len(returns) |-> Mul(growth[i], Q(100, 1))]

\* the body of the loop of plot_index_deepdive for one selected symbol
\* whose column of index_data is prices
plot_index_deepdive(prices) ==
    LET symbol_data == NotNa(prices)
        returns == PctChange(symbol_data)
        cumulative_nav == CumulativeNav(returns)
        cummax == CumMax(cumulative_nav)
    IN  [fn |-> "plot_index_deepdive",
         given |-> prices,
         cumulative_nav |-> cumulative_nav,
         drawdown |-> [i \in 1..Len(returns) |->
                          Sub(Div(cumulative_nav[i], cummax[i]), One)],
         volatility |-> robust_vol(returns, TRUE, BUSINESS_DAYS_IN_YEAR)]

MaxPrices == 5     \* rows of the price column handed to the deep-dive plot

NavPrices == {Q(90, 1), Q(95, 1), Q(100, 1), Q(105, 1), Q(110, 1), NaN}

InitNav ==
    /\ pc = "deepdive"
    /\ panel = {}
    /\ args = None
    /\ rets = None
    /\ series \in SeqsUpTo(NavPrices, MaxPrices)
    /\ input0 = series
    /\ calls = <<>>
    /\ dd = None
    /\ columns = DatasetColumns
    /\ result = None

\* the deep-dive page plots the selected symbol
CallPlotIndexDeepdive ==
    /\ pc = "deepdive"
    /\ result = None
    /\ result' = plot_index_deepdive(series)
    /\ UNCHANGED <<pc, panel, args, rets, series, input0, calls, dd, columns>>

NextNav == CallPlotIndexDeepdive

SpecNav == InitNav /\ [][NextNav]_vars

\* |a - b| <= 1/1000 for two defined numbers
WithinTolerance(a, b) ==
    /\ a.k = "q" /\ b.k = "q"
    /\ Le(Sub(a, b), Q(1, 1000)) /\ Le(Sub(b, a), Q(1, 1000))

\* C17: for the prices [100, 105, 110, 90, 95] the cumulative NAV rebased
\* to 100 is [100, 105, 110, 90.9090..., 95.909...] at the five dates
C17_NavRoundTrip ==
    (/\ result # None /\ result.fn = "plot_index_deepdive"
     /\ result.given = <<Q(100, 1), Q(105, 1), Q(110, 1), Q(90, 1), Q(95, 1)>>)
    => /\ Len(result.cumulative_nav) = 5
       /\ WithinTolerance(result.cumulative_nav[1], Q(100, 1))
       /\ WithinTolerance(result.cumulative_nav[2], Q(105, 1))
       /\ WithinTolerance(result.cumulative_nav[3], Q(110, 1))
       /\ WithinTolerance(result.cumulative_nav[4], Q(1000, 11))
       /\ WithinTolerance(result.cumulative_nav[5], Q(1055, 11))

----------------------------------------------------------------------------
(* Claims about the keys of the statistics bundle *)

EightKeys ==
    {"ann_mean", "ann_std", "sharpe_ratio", "skew", "avg_drawdown",
     "max_drawdown", "quant_ratio_lower", "quant_ratio_upper"}

\* C18: every statistics bundle has exactly the eight keys ann_mean,
\* ann_std, sharpe_ratio, skew, avg_drawdown, max_drawdown,
\* quant_ratio_lower, quant_ratio_upper and carries the frequency used, in
\* calculate_stats / performance_stats_df and in each row of
\* performance_stats_instruments
C18_EightKeysAndFrequencyTag ==
    StatsTableReturned =>
        \A c \in result.given.cols :
            /\ DOMAIN calculate_stats(ColumnOf(result.given, c), NATURAL).out
                   = EightKeys
            /\ DOMAIN performance_stats_df(ColumnOf(result.given, c),
                                           NATURAL).stats = EightKeys
            /\ "freq" \in performance_stats_df(ColumnOf(result.given, c),
                                               NATURAL).cols
            /\ performance_stats_df(ColumnOf(result.given, c), NATURAL).freq
                   = NATURAL
            /\ DOMAIN result.out.val[c] = EightKeys
            /\ EightKeys \subseteq result.out.cols
            /\ "freq" \in result.out.cols

----------------------------------------------------------------------------
(* The tail ratios called on one Series *)

MaxQuantLen == 4   \* longest series handed to the tail ratios

QuantCells == {Q(-2, 5), Q(-1, 10), Q(9, 10), Zero, NaN}

InitQuant ==
    /\ pc = "quant"
    /\ panel = {}
    /\ args = None
    /\ rets = None
    /\ series \in SeqsUpTo(QuantCells, MaxQuantLen)
    /\ input0 = series
    /\ calls = <<>>
    /\ dd = None
    /\ columns = DatasetColumns
    /\ result = None

\* the caller runs calculate_quant_ratio_lower(series); the zeros of the
\* caller's object are overwritten
CallQuantRatioLower ==
    /\ pc = "quant"
    /\ result = None
    /\ result' = [fn |-> "calculate_quant_ratio_lower", given |-> series,
                  out |-> calculate_quant_ratio_lower(series)]
    /\ series' = RemoveZeros(series)
    /\ UNCHANGED <<pc, panel, args, rets, input0, calls, dd, columns>>

\* the caller runs calculate_quant_ratio_upper(series)
CallQuantRatioUpper ==
    /\ pc = "quant"
    /\ result = None
    /\ result' = [fn |-> "calculate_quant_ratio_upper", given |-> series,
                  out |-> calculate_quant_ratio_upper(series)]
    /\ series' = RemoveZeros(series)
    /\ UNCHANGED <<pc, panel, args, rets, input0, calls, dd, columns>>

NextQuant ==
    \/ CallQuantRatioLower
    \/ CallQuantRatioUpper

SpecQuant == InitQuant /\ [][NextQuant]_vars

----------------------------------------------------------------------------
(* Claims about the tail ratios *)

LowerReturned == result # None /\ result.fn = "calculate_quant_ratio_lower"
UpperReturned == result # None /\ result.fn = "calculate_quant_ratio_upper"

\* the non-zero, non-missing observations of x
NonZeroObs(x) == SelectSeq(x, LAMBDA c : ~IsNaN(c) /\ c # Zero)

\* the observations obs less their mean, in ascending order
SortedDemeaned(obs) ==
    SortSeq([i \in 1..Len(obs) |-> Sub(obs[i], SeriesMean(obs))], Lt)

\* the quantile q of the demeaned observations
DemeanedQuantile(obs, q) ==
    QuantileAt(SortedDemeaned(obs), Mul(Q(Len(obs) - 1, 1), q))

\* the ratio of the quantiles qa and qb of the demeaned observations over
\* the normal reference ratio
TailRatio(obs, qa, qb) ==
    Div(Div(DemeanedQuantile(obs, qa), DemeanedQuantile(obs, qb)),
        NORMAL_DISTR_RATIO)

\* x with one more exact zero put in before position p
WithZeroAt(x, p) == SubSeq(x, 1, p - 1) \o <<Zero>> \o SubSeq(x, p, Len(x))

\* the ratio function that was called
RatioCalled(x) ==
    IF result.fn = "calculate_quant_ratio_lower"
    THEN calculate_quant_ratio_lower(x)
    ELSE calculate_quant_ratio_upper(x)

\* C19: in both tail ratios the mean subtracted and the quantiles are taken
\* over the non-zero, non-missing observations only, so putting exact-zero
\* observations into a series leaves both ratios unchanged
C19_TailRatiosIgnoreZeros ==
    (LowerReturned \/ UpperReturned) =>
        /\ LowerReturned =>
              result.out = TailRatio(NonZeroObs(result.given),
                                     Q(1, 100), Q(3, 10))
        /\ UpperReturned =>
              result.out = TailRatio(NonZeroObs(result.given),
                                     Q(99, 100), Q(7, 10))
        /\ \A p \in 1..(Len(result.given) + 1) :
              RatioCalled(WithZeroAt(result.given, p)) = result.out
        /\ RatioCalled(NonZeroObs(result.given)) = result.out

\* a series with a zero among three distinct non-zero returns and a finite
\* ratio
C19_Witness ==
    /\ LowerReturned \/ UpperReturned
    /\ Len(result.given) = 4
    /\ Len(NonZeroObs(result.given)) = 3
    /\ \E i \in 1..4 : result.given[i] = Zero
    /\ result.out.k = "q"
    /\ result.out # One

NegSeries(x) == [i \in 1..Len(x) |-> Neg(x[i])]

ZeroDenominator(q99, q70) == q70 = Zero /\ q99.k = "q" /\ q99 # Zero

\* upper and mirrored lower agree, or are infinities of opposite sign when
\* the upper ratio divides a non-zero quantile by zero
MirrorHolds(upper, mirrored, q99, q70) ==
    IF ZeroDenominator(q99, q70)
    THEN IsInf(upper) /\ mirrored = Neg(upper)
    ELSE upper = mirrored

----------------------------------------------------------------------------
(* Robust volatility over a window.  BUSINESS_DAYS_IN_YEAR is a keyword    *)
(* parameter of robust_vol, and the rolling window is ten times its value: *)
(* 2560 positions by default, 10 positions for a year of one day.  The     *)
(* values of the observations do not enter a cell of the output, only      *)
(* which of them are missing, so one defined value and nan are the inputs. *)

MaxVolLen == 12

MaxVolMissing == 1

\* the series of up to MaxVolLen observations of which at most MaxVolMissing
\* are missing
VolSeries ==
    UNION {{[i \in 1..n |-> IF i \in missing THEN NaN ELSE Q(1, 2)] :
                missing \in {m \in SUBSET (1..n) :
                                Cardinality(m) <= MaxVolMissing}} :
           n \in 1..MaxVolLen}

\* the values a caller passes for BUSINESS_DAYS_IN_YEAR
VolYears == {1, BUSINESS_DAYS_IN_YEAR}

InitVolWindow ==
    /\ pc = "volwindow"
    /\ panel = {}
    /\ args = None
    /\ rets = None
    /\ series \in VolSeries
    /\ input0 = series
    /\ calls = <<>>
    /\ dd = None
    /\ columns = DatasetColumns
    /\ result = None

\* the caller runs robust_vol(series, annualise_stdev,
\* BUSINESS_DAYS_IN_YEAR=business_days_in_year)
CallRobustVolWindow(annualise_stdev, business_days_in_year) ==
    /\ pc = "volwindow"
    /\ result = None
    /\ result' = [fn |-> "robust_vol_window", given |-> series,
                  annualise_stdev |-> annualise_stdev,
                  business_days_in_year |-> business_days_in_year,
                  out |-> robust_vol(series, annualise_stdev,
                                     business_days_in_year)]
    /\ UNCHANGED <<pc, panel, args, rets, series, input0, calls, dd, columns>>

NextVolWindow ==
    \E annualise_stdev \in BOOLEAN, business_days_in_year \in VolYears :
        CallRobustVolWindow(annualise_stdev, business_days_in_year)

SpecVolWindow == InitVolWindow /\ [][NextVolWindow]_vars

VolWindowReturned == result # None /\ result.fn = "robust_vol_window"

\* fast is defined at position j: two observations have been seen by then
FastDefined(x, j) ==
    Cardinality({i \in 1..j : ~IsNaN(x[i])}) >= 2

\* the positions among the most recent `window` up to t where fast is defined
SlowPositions(x, t, window) ==
    {j \in 1..t : j > t - window /\ FastDefined(x, j)}

\* the weight of the exponentially weighted standard deviation of position j
\* in 0.3 * slow[t] + 0.7 * fast[t], fast being `factor` times that deviation
BlendWeight(x, t, j, window, factor) ==
    Add(IF j \in SlowPositions(x, t, window)
        THEN Mul(Q(3, 10),
                 Mul(factor, Q(1, Cardinality(SlowPositions(x, t, window)))))
        ELSE Zero,
        IF j = t THEN Mul(Q(7, 10), factor) ELSE Zero)

FactorOf(r) ==
    IF r.annualise_stdev THEN RootOf(r.business_days_in_year) ELSE One

\* C21: at every position t the output of robust_vol is
\* 0.3 * slow[t] + 0.7 * fast[t], where fast is the exponentially weighted
\* standard deviation of span 32 (times the annualisation factor) and slow[t]
\* is the arithmetic mean of the defined values of fast among the most recent
\* 10 * BUSINESS_DAYS_IN_YEAR positions up to and including t, however few
\* they are; the output is undefined exactly where fast is
C21_BlendOfSlowAndFast ==
    VolWindowReturned =>
        /\ DOMAIN result.out = DOMAIN result.given
        /\ \A t \in DOMAIN result.out :
              IF FastDefined(result.given, t)
              THEN /\ ~IsNaN(result.out[t])
                   /\ result.out[t].span = 32
                   /\ \A j \in DOMAIN result.given :
                         result.out[t].c[j] =
                             BlendWeight(result.given, t, j,
                                         10 * result.business_days_in_year,
                                         FactorOf(result))
              ELSE IsNaN(result.out[t])

\* twelve observations and a window of ten: the last value of slow averages
\* the deviations of positions 3 .. 12 and leaves out that of position 2
C21_Witness ==
    /\ VolWindowReturned
    /\ result.business_days_in_year = 1
    /\ Len(result.given) = 12
    /\ NoMissing(result.given)
    /\ ~IsNaN(result.out[12])
    /\ result.out[12].c[2] = Zero
    /\ result.out[12].c[3] = Q(3, 100)
    /\ result.out[12].c[12] = Q(73, 100)
    /\ result.out[11].c[2] = Q(3, 100)

\* sixteen times every value of a volatility series
SixteenTimes(v) == [i \in DOMAIN v |-> VolScale(Q(16, 1), v[i])]

\* C22: for every return series robust_vol(series, annualise_stdev=True) is,
\* at every position, 16 (the square root of 256) times
\* robust_vol(series, annualise_stdev=False), and undefined where that is
C22_AnnualisedIsSixteenTimesDaily ==
    (VolReturned /\ result.annualise_stdev) =>
        result.out = SixteenTimes(robust_vol(result.given, FALSE,
                                             BUSINESS_DAYS_IN_YEAR))

\* an annualised call on three observations: the last value weighs the two
\* defined deviations 16 * 3/20 and 16 * 17/20, the daily one 3/20 and 17/20
C22_Witness ==
    /\ VolReturned
    /\ result.annualise_stdev
    /\ Len(result.given) = 3
    /\ NoMissing(result.given)
    /\ IsNaN(result.out[1])
    /\ result.out[3].c[2] = Q(12, 5)
    /\ result.out[3].c[3] = Q(68, 5)
    /\ robust_vol(result.given, FALSE, BUSINESS_DAYS_IN_YEAR)[3].c[3]
           = Q(17, 20)

----------------------------------------------------------------------------
(* The statistics table of the distribution page: the simple returns of    *)
(* the price panel go to performance_stats_instruments.  The panel here    *)
(* is the price path of one symbol, one positive close on each of the      *)
(* first dates of the calendar.                                            *)

MaxPathLen == 3    \* prices of the path

PathCloses == {1, 2, 3, 4}

\* the long panel of symbol "A" with the closes p[1], p[2], ... on the first
\* Len(p) dates
PathPanel(p) ==
    {[symbol |-> "A", date |-> DayOf(i), close |-> p[i]] : i \in 1..Len(p)}

PricePaths == {PathPanel(p) : p \in SeqsUpTo(PathCloses, MaxPathLen)}

InitPath ==
    /\ pc = "distribution"
    /\ panel \in PricePaths
    /\ args = None
    /\ rets = None
    /\ series = <<>>
    /\ input0 = <<>>
    /\ calls = <<>>
    /\ dd = None
    /\ columns = DatasetColumns
    /\ result = None

\* the page runs
\* performance_stats_instruments(calculate_returns_wide(panel, 'simple'))
CallDistributionStats ==
    /\ pc = "distribution"
    /\ result = None
    /\ args' = [k |-> "args", kind |-> "simple", resample |-> "None",
                dropna |-> TRUE]
    /\ result' = [fn |-> "distribution_stats", given |-> panel,
                  returns |-> calculate_returns_wide(panel, "simple",
                                                     "None", TRUE),
                  out |-> performance_stats_instruments(
                              calculate_returns_wide(panel, "simple",
                                                     "None", TRUE))]
    /\ UNCHANGED <<pc, panel, rets, series, input0, calls, dd, columns>>

NextPath == CallDistributionStats

SpecPath == InitPath /\ [][NextPath]_vars

PathReturned == result # None /\ result.fn = "distribution_stats"

\* the price P_t of the path df, t counted from 0
PriceAt(df, t) == (CHOOSE r \in df : r.date = DayOf(t + 1)).close

\* max(P_0 .. P_t)
PeakUpTo(df, t) ==
    CHOOSE m \in {PriceAt(df, u) : u \in 0..t} :
        \A u \in 0..t : PriceAt(df, u) <= m

\* P_t / max(P_0 .. P_t) - 1
DeclineAt(df, t) == Sub(Q(PriceAt(df, t), PeakUpTo(df, t)), One)

\* the minimum over t of P_t / max(P_0 .. P_t) - 1
PathDrawdown(df) ==
    CHOOSE x \in {DeclineAt(df, t) : t \in 0..(Cardinality(df) - 1)} :
        \A t \in 0..(Cardinality(df) - 1) : Le(x, DeclineAt(df, t))

\* C23: for a gap-free positive price series P_0 .. P_n of one symbol the
\* max_drawdown reported for its simple returns is the minimum over t of
\* P_t / max(P_0 .. P_t) - 1, the running peak including the initial price
C23_MaxDrawdownFromInitialPrice ==
    (PathReturned /\ Cardinality(result.given) >= 2) =>
        result.out.val["A"].max_drawdown = PathDrawdown(result.given)
====
